---- MODULE Spec2Model ----
(***************************************************************************)
(* Job orchestration of the speech-to-text backend:                        *)
(*   - the job record store (JobModel / JobRepository over the jobs table),*)
(*   - the BullMQ transcription queue and its worker (QueueService),       *)
(*   - the persistent gateway (WhisperService),                            *)
(*   - the on-demand gateway (DockerWhisperService) with its container     *)
(*     lifecycle and idle timer.                                           *)
(* Spec        : store + queue + worker over the persistent gateway.       *)
(* SpecDocker  : concurrent transcribe calls on the on-demand gateway.     *)
(* SpecDockerFair     : SpecDocker with the idle stop scheduled.           *)
(* SpecDockerShutdown : SpecDocker with Server.shutdown.                   *)
(* SpecCleanupFair    : queue + worker with Server.shutdown.               *)
(* SpecFair    : queue + worker with every step of an attempt scheduled.   *)
(* SpecFacade  : createJob and deleteJob beside the worker.                *)
(* SpecSubmit  : createJob over every shape of request.                    *)
(* SpecStore   : create, update and delete on the store.                   *)
(* SpecRead    : getJobById beside the worker.                             *)
(* SpecPool    : three jobs over the two slots of the worker.              *)
(* SpecLookup  : getJobById and deleteJob for stored and unknown ids.      *)
(* SpecHealth  : GET /health beside the on-demand gateway.                 *)
(* SpecList    : findAll beside the worker.                                *)
(* SpecUpload  : POST /upload beside the worker.                           *)
(* SpecQueueDown : createJob while the queue is unreachable.               *)
(* SpecStoreDown : the worker while the store fails.                       *)
(* SpecRoute   : the routes /api/jobs/:id beside the worker.               *)
(***************************************************************************)
EXTENDS Integers, Sequences, FiniteSets, TLC

\* ------------------------------------------------------------------------
\* Bounds of the model
\* ------------------------------------------------------------------------
MaxJobs == 1

\* the clock advances in steps of TICK up to MaxTime (milliseconds)
TICK == 100000

MaxTime == 600000

\* the number of updateJob requests followed
MaxWrites == 2

\* the number of jobs followed where the worker pool must be outnumbered
PoolJobs == 3

Jobs == 1..(IF PoolJobs > MaxJobs THEN PoolJobs ELSE MaxJobs)

\* ------------------------------------------------------------------------
\* Program constants
\* ------------------------------------------------------------------------
ATTEMPTS == 3

CONCURRENCY == 2

STARTUP_TIMEOUT == 60000

IDLE_TIMEOUT == 300000

REQUEST_TIMEOUT == 600000

BACKOFF_DELAY == 5000

\* JavaScript null (SQL NULL) and undefined
NULL == "<null>"

UNDEF == "<undefined>"

\* a store slot holding no row
NoJob == [status |-> "<none>"]

\* JobStatus enum
PENDING == "pending"

PROCESSING == "processing"

COMPLETED == "completed"

FAILED == "failed"

\* JavaScript truthiness of an optional string
Truthy(s) == s # UNDEF /\ s # NULL /\ s # ""

\* an optional time: <<>> is null, <<t>> is the time t
NoTime == <<>>

At(t) == <<t>>

VARIABLES
  store,          \* jobs table: job id -> row, or NoJob
  waiting,        \* BullMQ wait list (FIFO, every entry has priority 1)
  qstate,         \* BullMQ state of the queue entry of each job
  attemptsMade,   \* BullMQ attemptsMade of the queue entry
  pc,             \* position of the worker attempt inside processTranscriptionJob
  result,         \* the response the gateway returned to the current attempt
  calls,          \* history: the backend conditions met by each gateway call of the job
  dueAt,          \* the time the delay of a delayed entry ends
  envs,           \* the backend conditions a gateway call can meet in this deployment
  quota,          \* the number of jobs createJob accepts in the runs followed
  proc,           \* the server process: "up", "closing" (shutdown awaits cleanup), "exited"
  deleted,        \* per job: where its attempt stood when deleteJob removed it, "no" if not deleted
  lastSubmit,     \* the last createJob request and its outcome
  lastUpdate,     \* the last updateJob request and its outcome
  lastCall,       \* the last getJobById / deleteJob request and its outcome
  now,                  \* Date.now()
  cstate,               \* the container whisper-on-demand as docker sees it
  containerStartTime,   \* DockerWhisperService.containerStartTime
  whisperIdleTimeout,   \* global.whisperIdleTimeout: the time the armed timer is due
  tpc,                  \* position of each transcribe call inside transcribeStatic
  tStart,               \* startTime of waitForHealthy / send time of the request, per call
  conn,                 \* whether the connection of the request in flight is still served
  ret,                  \* the response the caller's transcribe call returned, until it calls again
  stopPc,               \* position of the stopContainer run started by the idle timer
  launched,             \* history: callers whose docker run succeeded since the last idle stop
  reclaimed,            \* history: an idle stop has removed the container
  probed                \* history: a health probe has succeeded since the last docker run / stop

qvars == <<store, waiting, qstate, attemptsMade, pc, result, calls, dueAt>>

dvars == <<now, cstate, containerStartTime, whisperIdleTimeout, tpc, tStart, conn, ret,
           stopPc, launched, reclaimed, probed>>

svars == <<envs, quota, proc, deleted, lastSubmit, lastUpdate, lastCall>>

\* the on-demand gateway without the clock
cvars == <<cstate, containerStartTime, whisperIdleTimeout, tpc, tStart, conn, ret,
           stopPc, launched, reclaimed, probed>>

vars == <<store, waiting, qstate, attemptsMade, pc, result, calls, dueAt,
          envs, quota, proc, deleted, lastSubmit, lastUpdate, lastCall,
          now, cstate, containerStartTime, whisperIdleTimeout, tpc, tStart, conn, ret,
          stopPc, launched, reclaimed, probed>>

\* ------------------------------------------------------------------------
\* The persistent gateway: WhisperService.transcribeStatic
\* ------------------------------------------------------------------------
\* What one call can meet: the source file, the connection, the response body.
\*   kind is the failure class of section 4.2 of the design the condition
\*   belongs to; the code itself never computes it.
Envs ==
  { [kind |-> "InputMissing",       file |-> FALSE, conn |-> "none",
     success |-> FALSE, transcription |-> UNDEF, transcription_file |-> UNDEF, error |-> UNDEF],
    [kind |-> "BackendUnavailable", file |-> TRUE,  conn |-> "ECONNREFUSED",
     success |-> FALSE, transcription |-> UNDEF, transcription_file |-> UNDEF, error |-> UNDEF],
    [kind |-> "BackendUnavailable", file |-> TRUE,  conn |-> "ECONNRESET",
     success |-> FALSE, transcription |-> UNDEF, transcription_file |-> UNDEF, error |-> UNDEF],
    [kind |-> "BackendTimeout",     file |-> TRUE,  conn |-> "ETIMEDOUT",
     success |-> FALSE, transcription |-> UNDEF, transcription_file |-> UNDEF, error |-> UNDEF],
    [kind |-> "BackendRejected",    file |-> TRUE,  conn |-> "ok",
     success |-> FALSE, transcription |-> UNDEF, transcription_file |-> UNDEF, error |-> "bad audio"],
    [kind |-> "BackendRejected",    file |-> TRUE,  conn |-> "ok",
     success |-> FALSE, transcription |-> UNDEF, transcription_file |-> UNDEF, error |-> UNDEF],
    [kind |-> "Success",            file |-> TRUE,  conn |-> "ok",
     success |-> TRUE,  transcription |-> "hello", transcription_file |-> "out.txt", error |-> UNDEF],
    [kind |-> "Success",            file |-> TRUE,  conn |-> "ok",
     success |-> TRUE,  transcription |-> "hello", transcription_file |-> UNDEF, error |-> UNDEF],
    [kind |-> "Success",            file |-> TRUE,  conn |-> "ok",
     success |-> TRUE,  transcription |-> "", transcription_file |-> "out.txt", error |-> UNDEF] }

Response(ok, text, file, err) ==
  [success |-> ok, transcription |-> text, transcriptionFile |-> file, error |-> err]

NoResponse == Response(FALSE, UNDEF, UNDEF, UNDEF)

transcribeStatic(env) ==
  IF ~env.file
    THEN Response(FALSE, UNDEF, UNDEF, "File not found")
  ELSE IF env.conn = "ECONNREFUSED"
    THEN Response(FALSE, UNDEF, UNDEF, "WhisperX service is not available")
  ELSE IF env.conn = "ETIMEDOUT"
    THEN Response(FALSE, UNDEF, UNDEF, "WhisperX service request timeout")
  ELSE IF env.conn # "ok"
    THEN Response(FALSE, UNDEF, UNDEF, env.conn)
  ELSE IF env.success
    THEN Response(TRUE, env.transcription, env.transcription_file, UNDEF)
  ELSE Response(FALSE, UNDEF, UNDEF,
                IF Truthy(env.error) THEN env.error
                ELSE "Unknown error from WhisperX service")

\* ------------------------------------------------------------------------
\* The job record store: JobModel
\* ------------------------------------------------------------------------
\* timestamps of a row are counted in writes: the timestamp of a later write
Touch(t) == t + 1

\* createJob requests: each required field present or missing, the uploaded
\* file present or not at filePath
Requests ==
  { [originalFilename |-> name, filePath |-> path, model |-> model, fileExists |-> onDisk] :
      name \in {"", "a.mp3"}, path \in {UNDEF, "/uploads/a.mp3"},
      model \in {UNDEF, "base"}, onDisk \in BOOLEAN }

ValidRequest ==
  [originalFilename |-> "a.mp3", filePath |-> "/uploads/a.mp3", model |-> "base",
   fileExists |-> TRUE]

\* the row INSERTed for a createJob request
NewRow(req) ==
  [originalFilename |-> req.originalFilename, filePath |-> req.filePath, model |-> req.model,
   status |-> PENDING, transcriptionText |-> NULL, transcriptionFilePath |-> NULL,
   errorMessage |-> NULL, completedAt |-> NULL, updatedAt |-> 0]

UpdateData(st, text, file, err, done) ==
  [status |-> st, transcriptionText |-> text, transcriptionFilePath |-> file,
   errorMessage |-> err, completedAt |-> done]

Exists(j) == store[j] # NoJob

\* mutation: an update without errorMessage clears the column
UpdatedRow_clobber(row, data) ==
  [originalFilename      |-> row.originalFilename,
   filePath              |-> row.filePath,
   model                 |-> row.model,
   status                |-> IF data.status # UNDEF THEN data.status ELSE row.status,
   transcriptionText     |-> IF data.transcriptionText # UNDEF
                               THEN data.transcriptionText ELSE row.transcriptionText,
   transcriptionFilePath |-> IF data.transcriptionFilePath # UNDEF
                               THEN data.transcriptionFilePath ELSE row.transcriptionFilePath,
   errorMessage          |-> IF data.errorMessage # UNDEF THEN data.errorMessage ELSE NULL,
   completedAt           |-> IF data.completedAt # UNDEF
                               THEN data.completedAt ELSE row.completedAt,
   updatedAt             |-> Touch(row.updatedAt)]

\* the row after UPDATE jobs SET <provided fields> WHERE id = j
UpdatedRow(row, data) ==
  [originalFilename      |-> row.originalFilename,
   filePath              |-> row.filePath,
   model                 |-> row.model,
   status                |-> IF data.status # UNDEF THEN data.status ELSE row.status,
   transcriptionText     |-> IF data.transcriptionText # UNDEF
                               THEN data.transcriptionText ELSE row.transcriptionText,
   transcriptionFilePath |-> IF data.transcriptionFilePath # UNDEF
                               THEN data.transcriptionFilePath ELSE row.transcriptionFilePath,
   errorMessage          |-> IF data.errorMessage # UNDEF
                               THEN data.errorMessage ELSE row.errorMessage,
   completedAt           |-> IF data.completedAt # UNDEF
                               THEN data.completedAt ELSE row.completedAt,
   updatedAt             |-> Touch(row.updatedAt)]

\* mutation: the update inserts the row when the id is not stored
JobModel_update_upsert(j, data) ==
  store' = [store EXCEPT ![j] = UpdatedRow(IF Exists(j) THEN store[j] ELSE NewRow(ValidRequest), data)]

JobModel_update(j, data) ==
  store' = IF Exists(j) THEN [store EXCEPT ![j] = UpdatedRow(store[j], data)] ELSE store

\* mutation: the test for an empty request is missing
NoFields_never(data) == FALSE

\* setParts.length === 0: the request provides no field
NoFields(data) == \A f \in DOMAIN data : data[f] = UNDEF

\* the call throws an Error with this message
Thrown(msg) == [threw |-> TRUE, value |-> msg]

\* the call returns: "row" for the mapped row, "null" for null
Returned(v) == [threw |-> FALSE, value |-> v]

\* what JobRepository.update gives its caller
updateOutcome(j, data) ==
  IF NoFields(data) THEN Thrown("No fields to update")
  ELSE IF Exists(j) THEN Returned("row")
  ELSE Returned("null")

\* the update requests followed: every field absent or given one value
UpdateRequests ==
  { UpdateData(st, text, file, err, done) :
      st \in {UNDEF, COMPLETED}, text \in {UNDEF, "hello"}, file \in {UNDEF, "out.txt"},
      err \in {UNDEF, "bad audio"}, done \in {UNDEF, "date"} }

\* no updateJob request made yet
NoUpdate == [seq |-> 0, outcome |-> Returned("<none>")]

\* JobService.updateJob -> JobRepository.update; a thrown Error or a null
\* reaches the caller as a failure
UpdateJob(j, data) ==
  /\ proc # "exited"
  /\ lastUpdate.seq < MaxWrites
  /\ IF NoFields(data) THEN UNCHANGED store ELSE JobModel_update(j, data)
  /\ lastUpdate' = [seq |-> lastUpdate.seq + 1, id |-> j, data |-> data,
                    outcome |-> updateOutcome(j, data)]
  /\ UNCHANGED <<waiting, qstate, attemptsMade, pc, result, calls>>
  /\ UNCHANGED dueAt
  /\ UNCHANGED <<envs, quota, proc, deleted, lastSubmit, lastCall>>
  /\ UNCHANGED dvars

\* updateJob for any request
UpdateAny(j) == \E data \in UpdateRequests : UpdateJob(j, data)

\* ------------------------------------------------------------------------
\* The facade: JobService.createJob and JobService.deleteJob
\* ------------------------------------------------------------------------
\* mutation: the validation forgets the model
MissingRequired_noModel(req) == ~Truthy(req.originalFilename) \/ ~Truthy(req.filePath)

\* !data.originalFilename || !data.filePath || !data.model
MissingRequired(req) ==
  ~Truthy(req.originalFilename) \/ ~Truthy(req.filePath) \/ ~Truthy(req.model)

\* createJob throws a ValidationError
ValidationError(msg) == [name |-> "ValidationError", message |-> msg]

\* createJob returns the job
Created == [name |-> "created", message |-> UNDEF]

createJobOutcome(req) ==
  IF MissingRequired(req)
    THEN ValidationError("Missing required fields: originalFilename, filePath, model")
  ELSE IF ~(Truthy(req.filePath) /\ req.fileExists)
    THEN ValidationError("File does not exist")
  ELSE Created

\* no createJob request made yet
NoSubmit == [outcome |-> [name |-> "<none>", message |-> UNDEF]]

\* ------------------------------------------------------------------------
\* The queue: BullMQ under the options QueueService gives it
\* ------------------------------------------------------------------------
Active == {j \in Jobs : qstate[j] = "active"}

\* mutation: the retry test is off by one and allows a fourth attempt
ShouldRetry_offByOne(made) == made <= ATTEMPTS

\* a thrown attempt is retried while attemptsMade stays below attempts
ShouldRetry(made) == made < ATTEMPTS

\* the ids of the jobs followed
Ids == 1..quota

\* the id the store gives the next row
NextId == 1 + Cardinality({k \in Jobs : qstate[k] # "none" \/ Exists(k) \/ deleted[k] # "no"})

QInit ==
  /\ store = [j \in Jobs |-> NoJob]
  /\ waiting = <<>>
  /\ qstate = [j \in Jobs |-> "none"]
  /\ attemptsMade = [j \in Jobs |-> 0]
  /\ pc = [j \in Jobs |-> "idle"]
  /\ result = [j \in Jobs |-> NoResponse]
  /\ calls = [j \in Jobs |-> <<>>]
  /\ dueAt = [j \in Jobs |-> NoTime]

\* JobService.createJob: validate; insert the row as pending under a fresh
\* id, then add the queue entry.  A rejected request is filed under j = 1.
CreateJob(j, req) ==
  /\ proc # "exited"
  /\ IF createJobOutcome(req) = Created
       THEN /\ j = NextId
            /\ store' = [store EXCEPT ![j] = NewRow(req)]
            /\ waiting' = Append(waiting, j)
            /\ qstate' = [qstate EXCEPT ![j] = "waiting"]
       ELSE /\ j = 1
            /\ UNCHANGED <<store, waiting, qstate>>
  /\ lastSubmit' = [request |-> req, outcome |-> createJobOutcome(req)]
  /\ UNCHANGED <<attemptsMade, pc, result, calls>>
  /\ UNCHANGED dueAt
  /\ UNCHANGED <<envs, quota, proc, deleted, lastUpdate, lastCall>>
  /\ UNCHANGED dvars

\* createJob for a request that passes its validation
Submit(j) == CreateJob(j, ValidRequest)

\* createJob for any request
SubmitAny(j) == \E req \in Requests : CreateJob(j, req)

\* a getJobById / deleteJob request for id j and what it gave its caller
Call(op, j, outcome) == [op |-> op, id |-> j, outcome |-> outcome]

\* no getJobById / deleteJob request made yet
NoCall == Call("<none>", 0, Returned("<none>"))

\* throw new NotFoundError('Job', id)
NotFound == Thrown("NOT_FOUND")

\* JobRepository.mapRowToJob: the nullable columns pass through || undefined
mapRowToJob(row) ==
  [originalFilename      |-> row.originalFilename,
   filePath              |-> row.filePath,
   model                 |-> row.model,
   status                |-> row.status,
   transcriptionText     |-> IF Truthy(row.transcriptionText)
                               THEN row.transcriptionText ELSE UNDEF,
   transcriptionFilePath |-> IF Truthy(row.transcriptionFilePath)
                               THEN row.transcriptionFilePath ELSE UNDEF,
   errorMessage          |-> IF Truthy(row.errorMessage) THEN row.errorMessage ELSE UNDEF,
   completedAt           |-> IF Truthy(row.completedAt) THEN row.completedAt ELSE UNDEF,
   updatedAt             |-> row.updatedAt]

\* mutation: deleteJob deletes without looking the job up first
Delete_blind(j) ==
  /\ proc # "exited"
  /\ store' = [store EXCEPT ![j] = NoJob]
  /\ deleted' = [deleted EXCEPT ![j] =
                   IF qstate[j] = "active" THEN pc[j] ELSE qstate[j]]
  /\ lastCall' = Call("deleteJob", j, Returned("void"))
  /\ UNCHANGED <<waiting, qstate, attemptsMade, pc, result, calls>>
  /\ UNCHANGED dueAt
  /\ UNCHANGED <<envs, quota, proc, lastSubmit, lastUpdate>>
  /\ UNCHANGED dvars

\* JobService.deleteJob: NotFoundError for an id that is not stored; for a
\* stored job unlink its files and delete the row.  The queue entry and a
\* running attempt are not touched.
Delete(j) ==
  /\ proc # "exited"
  /\ IF Exists(j)
       THEN /\ store' = [store EXCEPT ![j] = NoJob]
            /\ deleted' = [deleted EXCEPT ![j] =
                             IF qstate[j] = "active" THEN pc[j] ELSE qstate[j]]
            /\ lastCall' = Call("deleteJob", j, Returned("void"))
       ELSE /\ UNCHANGED <<store, deleted>>
            /\ lastCall' = Call("deleteJob", j, NotFound)
  /\ UNCHANGED <<waiting, qstate, attemptsMade, pc, result, calls>>
  /\ UNCHANGED dueAt
  /\ UNCHANGED <<envs, quota, proc, lastSubmit, lastUpdate>>
  /\ UNCHANGED dvars

\* mutation: the read refreshes the timestamp of the row it returns
GetJob_touch(j) ==
  /\ proc # "exited"
  /\ lastCall' = Call("getJob", j, IF Exists(j) THEN Returned(mapRowToJob(store[j]))
                                                  ELSE NotFound)
  /\ store' = IF Exists(j)
                THEN [store EXCEPT ![j] = [@ EXCEPT !.updatedAt = Touch(@)]] ELSE store
  /\ UNCHANGED <<waiting, qstate, attemptsMade, pc, result, calls>>
  /\ UNCHANGED dueAt
  /\ UNCHANGED <<envs, quota, proc, deleted, lastSubmit, lastUpdate>>
  /\ UNCHANGED dvars

\* JobService.getJobById -> JobRepository.findById: the mapped row, or
\* NotFoundError for an id that is not stored
GetJob(j) ==
  /\ proc # "exited"
  /\ lastCall' = Call("getJob", j, IF Exists(j) THEN Returned(mapRowToJob(store[j]))
                                                  ELSE NotFound)
  /\ UNCHANGED <<store, waiting, qstate, attemptsMade, pc, result, calls>>
  /\ UNCHANGED dueAt
  /\ UNCHANGED <<envs, quota, proc, deleted, lastSubmit, lastUpdate>>
  /\ UNCHANGED dvars

\* mutation: the worker takes the entry added last
Dequeue_newest(j) ==
  /\ waiting # <<>>
  /\ waiting[Len(waiting)] = j
  /\ Cardinality(Active) < CONCURRENCY
  /\ proc = "up"
  /\ waiting' = SubSeq(waiting, 1, Len(waiting) - 1)
  /\ qstate' = [qstate EXCEPT ![j] = "active"]
  /\ pc' = [pc EXCEPT ![j] = "begin"]
  /\ UNCHANGED <<store, attemptsMade, result, calls>>
  /\ UNCHANGED dueAt
  /\ UNCHANGED <<envs, quota, proc, deleted, lastSubmit, lastUpdate, lastCall>>
  /\ UNCHANGED dvars

\* mutation: the worker takes the head of the wait list whenever there is one
Dequeue_noCap(j) ==
  /\ waiting # <<>>
  /\ Head(waiting) = j
  /\ proc = "up"
  /\ waiting' = Tail(waiting)
  /\ qstate' = [qstate EXCEPT ![j] = "active"]
  /\ pc' = [pc EXCEPT ![j] = "begin"]
  /\ UNCHANGED <<store, attemptsMade, result, calls>>
  /\ UNCHANGED dueAt
  /\ UNCHANGED <<envs, quota, proc, deleted, lastSubmit, lastUpdate, lastCall>>
  /\ UNCHANGED dvars

\* the worker takes the head of the wait list while fewer than `concurrency`
\* attempts are active
Dequeue(j) ==
  /\ waiting # <<>>
  /\ Head(waiting) = j
  /\ Cardinality(Active) < CONCURRENCY
  /\ proc = "up"
  /\ waiting' = Tail(waiting)
  /\ qstate' = [qstate EXCEPT ![j] = "active"]
  /\ pc' = [pc EXCEPT ![j] = "begin"]
  /\ UNCHANGED <<store, attemptsMade, result, calls>>
  /\ UNCHANGED dueAt
  /\ UNCHANGED <<envs, quota, proc, deleted, lastSubmit, lastUpdate, lastCall>>
  /\ UNCHANGED dvars

\* processTranscriptionJob, first await: mark the row processing
MarkProcessing(j) ==
  /\ pc[j] = "begin"
  /\ JobModel_update(j, UpdateData(PROCESSING, UNDEF, UNDEF, UNDEF, UNDEF))
  /\ pc' = [pc EXCEPT ![j] = "transcribe"]
  /\ UNCHANGED <<waiting, qstate, attemptsMade, result, calls>>
  /\ UNCHANGED dueAt
  /\ UNCHANGED <<envs, quota, proc, deleted, lastSubmit, lastUpdate, lastCall>>
  /\ UNCHANGED dvars

\* the condition a call for job j meets: deleteJob has unlinked the source
\* file of a deleted job
Met(j, env) ==
  IF deleted[j] = "no" THEN env ELSE [env EXCEPT !.kind = "InputMissing", !.file = FALSE]

\* processTranscriptionJob, second await: one gateway call
Transcribe(j) ==
  /\ pc[j] = "transcribe"
  /\ \E env \in envs :
       /\ result' = [result EXCEPT ![j] = transcribeStatic(Met(j, env))]
       /\ calls' = [calls EXCEPT ![j] = Append(@, Met(j, env))]
  /\ pc' = [pc EXCEPT ![j] = "result"]
  /\ UNCHANGED <<store, waiting, qstate, attemptsMade>>
  /\ UNCHANGED dueAt
  /\ UNCHANGED <<envs, quota, proc, deleted, lastSubmit, lastUpdate, lastCall>>
  /\ UNCHANGED dvars

\* the message of the Error thrown for an unusable response
ThrownMessage(r) == IF Truthy(r.error) THEN r.error ELSE "Transcription failed"

\* mutation: the catch block writes the message of the error as it is
FailedData_raw(msg) == UpdateData(FAILED, UNDEF, UNDEF, msg, UNDEF)

\* mutation: a failed attempt puts the row back to pending for its retry
FailedData_reset(msg) ==
  UpdateData(PENDING, UNDEF, UNDEF, IF Truthy(msg) THEN msg ELSE "Unknown error occurred", UNDEF)

\* the row update of the catch block
\* mutation: the catch block records the message but not the status
FailedData_keepStatus(msg) ==
  UpdateData(UNDEF, UNDEF, UNDEF, IF Truthy(msg) THEN msg ELSE "Unknown error occurred", UNDEF)

FailedData(msg) ==
  UpdateData(FAILED, UNDEF, UNDEF, IF Truthy(msg) THEN msg ELSE "Unknown error occurred", UNDEF)

\* the row update of the success branch
CompletedData(r) ==
  UpdateData(COMPLETED, r.transcription, r.transcriptionFile, UNDEF, "date")

\* mutation: the success test looks at the success flag only
Usable_lax(r) == r.success

\* the success test of processTranscriptionJob
Usable(r) == r.success /\ Truthy(r.transcription)

\* processTranscriptionJob, after the gateway returned: the success branch
Complete(j) ==
  /\ pc[j] = "result"
  /\ Usable(result[j])
  /\ JobModel_update(j, CompletedData(result[j]))
  /\ qstate' = [qstate EXCEPT ![j] = "completed"]
  /\ pc' = [pc EXCEPT ![j] = "idle"]
  /\ result' = [result EXCEPT ![j] = NoResponse]
  /\ UNCHANGED <<waiting, attemptsMade, calls>>
  /\ UNCHANGED dueAt
  /\ UNCHANGED <<envs, quota, proc, deleted, lastSubmit, lastUpdate, lastCall>>
  /\ UNCHANGED dvars

\* mutation: every retry waits the base delay
Backoff_fixed(made) == BACKOFF_DELAY

\* backoff { type: 'exponential', delay: 5000 }: the delay BullMQ gives the
\* retry after the made-th attempt
Backoff(made) == BACKOFF_DELAY * 2 ^ (made - 1)

\* the later of two times
Later(a, b) == IF a >= b THEN a ELSE b

\* processTranscriptionJob, after the gateway returned: throw, catch, mark
\* the row failed, rethrow to BullMQ, which retries or fails the entry with
\* its backoff delay
Fail(j) ==
  /\ pc[j] = "result"
  /\ ~Usable(result[j])
  /\ JobModel_update(j, FailedData(ThrownMessage(result[j])))
  /\ attemptsMade' = [attemptsMade EXCEPT ![j] = @ + 1]
  /\ qstate' = [qstate EXCEPT ![j] =
                  IF ShouldRetry(attemptsMade[j] + 1) THEN "delayed" ELSE "failed"]
  /\ dueAt' = [dueAt EXCEPT ![j] =
                 IF ShouldRetry(attemptsMade[j] + 1)
                   THEN At(now + Backoff(attemptsMade[j] + 1)) ELSE NoTime]
  /\ pc' = [pc EXCEPT ![j] = "idle"]
  /\ result' = [result EXCEPT ![j] = NoResponse]
  /\ UNCHANGED <<waiting, calls>>
  /\ UNCHANGED <<envs, quota, proc, deleted, lastSubmit, lastUpdate, lastCall>>
  /\ UNCHANGED dvars

\* mutation: the entry whose delay elapsed is marked waiting but is not put
\* back on the wait list
BackoffElapsed_lost(j) ==
  /\ qstate[j] = "delayed"
  /\ proc # "exited"
  /\ qstate' = [qstate EXCEPT ![j] = "waiting"]
  /\ now' = Later(now, dueAt[j][1])
  /\ dueAt' = [dueAt EXCEPT ![j] = NoTime]
  /\ UNCHANGED <<store, waiting, attemptsMade, pc, result, calls>>
  /\ UNCHANGED <<envs, quota, proc, deleted, lastSubmit, lastUpdate, lastCall>>
  /\ UNCHANGED cvars

\* the time reaches the end of the delay of a retried entry, which returns
\* to the tail of the wait list
BackoffElapsed(j) ==
  /\ qstate[j] = "delayed"
  /\ proc # "exited"
  /\ qstate' = [qstate EXCEPT ![j] = "waiting"]
  /\ waiting' = Append(waiting, j)
  /\ now' = Later(now, dueAt[j][1])
  /\ dueAt' = [dueAt EXCEPT ![j] = NoTime]
  /\ UNCHANGED <<store, attemptsMade, pc, result, calls>>
  /\ UNCHANGED <<envs, quota, proc, deleted, lastSubmit, lastUpdate, lastCall>>
  /\ UNCHANGED cvars

QNext ==
  \E j \in Ids :
    \/ Submit(j)
    \/ Dequeue(j)
    \/ MarkProcessing(j)
    \/ Transcribe(j)
    \/ Complete(j)
    \/ Fail(j)
    \/ BackoffElapsed(j)

\* ------------------------------------------------------------------------
\* The on-demand gateway: DockerWhisperService
\* ------------------------------------------------------------------------
\* the transcribe calls that can be running at once: one per worker slot
Callers == 1..CONCURRENCY

\* docker ps -q -f name=whisper-on-demand -f status=running
isContainerRunning == cstate \in {"starting", "healthy"}

\* response bodies of POST /transcribe
Bodies ==
  { [success |-> TRUE,  transcription |-> "hello", transcription_file |-> "out.txt", error |-> UNDEF],
    [success |-> FALSE, transcription |-> UNDEF,   transcription_file |-> UNDEF,     error |-> "bad audio"] }

\* the return of transcribeStatic for a response body
BodyResponse(b) ==
  IF b.success
    THEN Response(TRUE, b.transcription, b.transcription_file, UNDEF)
    ELSE Response(FALSE, UNDEF, UNDEF,
                  IF Truthy(b.error) THEN b.error ELSE "Unknown error from WhisperX service")

\* the return of the catch block of transcribeStatic
ErrorResponse(msg) ==
  Response(FALSE, UNDEF, UNDEF, IF Truthy(msg) THEN msg ELSE "Unknown error occurred")

\* the time an idle timer armed now is due
IdleDeadline == At(now + IDLE_TIMEOUT)

\* a docker stop ends the process serving the requests in flight
Broken == [c \in Callers |-> FALSE]

\* transcribeStatic returns r to its caller
Return(c, r) ==
  /\ tpc' = [tpc EXCEPT ![c] = "idle"]
  /\ ret' = [ret EXCEPT ![c] = r]
  /\ tStart' = [tStart EXCEPT ![c] = 0]

DInit ==
  /\ now = 0
  /\ cstate = "absent"
  /\ containerStartTime = NoTime
  /\ whisperIdleTimeout = NoTime
  /\ tpc = [c \in Callers |-> "idle"]
  /\ tStart = [c \in Callers |-> 0]
  /\ conn = [c \in Callers |-> FALSE]
  /\ ret = [c \in Callers |-> NoResponse]
  /\ stopPc = "idle"
  /\ launched = {}
  /\ reclaimed = FALSE
  /\ probed = FALSE

\* transcribeStatic is called; it awaits isContainerRunning
Invoke(c) ==
  /\ tpc[c] = "idle"
  /\ proc = "up"
  /\ tpc' = [tpc EXCEPT ![c] = "check"]
  /\ ret' = [ret EXCEPT ![c] = NoResponse]
  /\ UNCHANGED <<now, cstate, containerStartTime, whisperIdleTimeout, tStart, conn,
                 stopPc, launched, reclaimed, probed>>
  /\ UNCHANGED qvars
  /\ UNCHANGED svars

\* transcribeStatic from scheduleIdleStop on, run without an await in between:
\* arm the idle timer, check the file, send the request
SendOrFail(c) ==
  /\ whisperIdleTimeout' = IdleDeadline
  /\ \E fileExists \in BOOLEAN :
       IF fileExists
         THEN /\ tpc' = [tpc EXCEPT ![c] = "post"]
              /\ tStart' = [tStart EXCEPT ![c] = now]
              /\ conn' = [conn EXCEPT ![c] = (cstate = "healthy")]
              /\ ret' = ret
         ELSE /\ Return(c, ErrorResponse("File not found"))
              /\ UNCHANGED conn

\* isContainerRunning has answered
Check(c) ==
  /\ tpc[c] = "check"
  /\ IF isContainerRunning
       THEN SendOrFail(c)
       ELSE /\ tpc' = [tpc EXCEPT ![c] = "s_stop"]
            /\ UNCHANGED <<whisperIdleTimeout, tStart, conn, ret>>
  /\ UNCHANGED <<now, cstate, containerStartTime, stopPc, launched, reclaimed, probed>>
  /\ UNCHANGED qvars
  /\ UNCHANGED svars

\* startContainer: docker stop of any existing container
StartStop(c) ==
  /\ tpc[c] = "s_stop"
  /\ IF cstate = "absent"
       THEN /\ tpc' = [tpc EXCEPT ![c] = "s_run"]
            /\ UNCHANGED <<cstate, conn, probed>>
       ELSE /\ cstate' = "exited"
            /\ conn' = Broken
            /\ probed' = FALSE
            /\ tpc' = [tpc EXCEPT ![c] = "s_rm"]
  /\ UNCHANGED <<now, containerStartTime, whisperIdleTimeout, tStart, ret, stopPc, launched, reclaimed>>
  /\ UNCHANGED qvars
  /\ UNCHANGED svars

\* startContainer: docker rm; its failure is swallowed
StartRm(c) ==
  /\ tpc[c] = "s_rm"
  /\ cstate' = IF cstate = "exited" THEN "absent" ELSE cstate
  /\ tpc' = [tpc EXCEPT ![c] = "s_run"]
  /\ UNCHANGED <<now, containerStartTime, whisperIdleTimeout, tStart, conn, ret,
                 stopPc, launched, reclaimed, probed>>
  /\ UNCHANGED qvars
  /\ UNCHANGED svars

\* startContainer: docker run -d --name whisper-on-demand, then waitForHealthy
\* begins; a name conflict makes transcribeStatic return the failure
StartRun(c) ==
  /\ tpc[c] = "s_run"
  /\ IF cstate = "absent"
       THEN /\ cstate' = "starting"
            /\ containerStartTime' = At(now)
            /\ tStart' = [tStart EXCEPT ![c] = now]
            /\ tpc' = [tpc EXCEPT ![c] = "s_wait"]
            /\ launched' = launched \cup {c}
            /\ probed' = FALSE
            /\ ret' = ret
       ELSE /\ Return(c, ErrorResponse("Failed to start Whisper service"))
            /\ UNCHANGED <<cstate, containerStartTime, launched, probed>>
  /\ UNCHANGED <<now, whisperIdleTimeout, conn, stopPc, reclaimed>>
  /\ UNCHANGED qvars
  /\ UNCHANGED svars

\* waitForHealthy: a probe within the startup budget finds the service healthy
WaitHealthy(c) ==
  /\ tpc[c] = "s_wait"
  /\ now - tStart[c] < STARTUP_TIMEOUT
  /\ cstate = "healthy"
  /\ probed' = TRUE
  /\ SendOrFail(c)
  /\ UNCHANGED <<now, cstate, containerStartTime, stopPc, launched, reclaimed>>
  /\ UNCHANGED qvars
  /\ UNCHANGED svars

\* mutation: a start that was not healthy in time is attempted again
WaitTimeout_retry(c) ==
  /\ tpc[c] = "s_wait"
  /\ now - tStart[c] >= STARTUP_TIMEOUT
  /\ tpc' = [tpc EXCEPT ![c] = "s_stop"]
  /\ UNCHANGED <<now, cstate, containerStartTime, whisperIdleTimeout, tStart, conn, ret,
                 stopPc, launched, reclaimed, probed>>
  /\ UNCHANGED qvars
  /\ UNCHANGED svars

\* waitForHealthy: the startup budget is used up
WaitTimeout(c) ==
  /\ tpc[c] = "s_wait"
  /\ now - tStart[c] >= STARTUP_TIMEOUT
  /\ Return(c, ErrorResponse("Failed to start Whisper service"))
  /\ UNCHANGED <<now, cstate, containerStartTime, whisperIdleTimeout, conn,
                 stopPc, launched, reclaimed, probed>>
  /\ UNCHANGED qvars
  /\ UNCHANGED svars

\* the service inside the started container begins to answer
BecomeHealthy ==
  /\ cstate = "starting"
  /\ cstate' = "healthy"
  /\ UNCHANGED <<now, containerStartTime, whisperIdleTimeout, tpc, tStart, conn, ret,
                 stopPc, launched, reclaimed, probed>>
  /\ UNCHANGED qvars
  /\ UNCHANGED svars

\* axios.post resolves with a response body
Respond(c) ==
  /\ tpc[c] = "post"
  /\ conn[c]
  /\ now - tStart[c] < REQUEST_TIMEOUT
  /\ \E b \in Bodies : Return(c, BodyResponse(b))
  /\ conn' = [conn EXCEPT ![c] = FALSE]
  /\ UNCHANGED <<now, cstate, containerStartTime, whisperIdleTimeout,
                 stopPc, launched, reclaimed, probed>>
  /\ UNCHANGED qvars
  /\ UNCHANGED svars

\* axios.post rejects: nothing serves the connection
ConnError(c) ==
  /\ tpc[c] = "post"
  /\ ~conn[c]
  /\ Return(c, ErrorResponse("connect ECONNREFUSED"))
  /\ UNCHANGED <<now, cstate, containerStartTime, whisperIdleTimeout, conn,
                 stopPc, launched, reclaimed, probed>>
  /\ UNCHANGED qvars
  /\ UNCHANGED svars

\* mutation: the rejection of the timed-out request escapes transcribeStatic
RequestTimeout_throw(c) ==
  /\ tpc[c] = "post"
  /\ now - tStart[c] >= REQUEST_TIMEOUT
  /\ Return(c, NoResponse)
  /\ conn' = [conn EXCEPT ![c] = FALSE]
  /\ UNCHANGED <<now, cstate, containerStartTime, whisperIdleTimeout,
                 stopPc, launched, reclaimed, probed>>
  /\ UNCHANGED qvars
  /\ UNCHANGED svars

\* axios.post rejects: REQUEST_TIMEOUT
RequestTimeout(c) ==
  /\ tpc[c] = "post"
  /\ now - tStart[c] >= REQUEST_TIMEOUT
  /\ Return(c, ErrorResponse("timeout of 600000ms exceeded"))
  /\ conn' = [conn EXCEPT ![c] = FALSE]
  /\ UNCHANGED <<now, cstate, containerStartTime, whisperIdleTimeout,
                 stopPc, launched, reclaimed, probed>>
  /\ UNCHANGED qvars
  /\ UNCHANGED svars

\* the idle timer armed by scheduleIdleStop is due: its callback calls
\* stopContainer, which issues docker stop.  A stopContainer run (docker
\* stop, docker rm) is over long before the next timer, armed IDLE_TIMEOUT
\* ahead, can be due, so one stopContainer position is kept.
TimerFire ==
  /\ whisperIdleTimeout # NoTime
  /\ now >= whisperIdleTimeout[1]
  /\ stopPc = "idle"
  /\ proc # "exited"
  /\ whisperIdleTimeout' = NoTime
  /\ stopPc' = "stop"
  /\ UNCHANGED <<now, cstate, containerStartTime, tpc, tStart, conn, ret, launched, reclaimed, probed>>
  /\ UNCHANGED qvars
  /\ UNCHANGED svars

\* stopContainer: docker stop; a failure ends stopContainer in its catch.
\* The docker stop command is a child process: it completes even when the
\* server has exited meanwhile, and nothing is left to run docker rm then.
StopStop ==
  /\ stopPc = "stop"
  /\ IF cstate = "absent"
       THEN /\ stopPc' = "idle"
            /\ UNCHANGED <<cstate, conn, launched, probed>>
       ELSE /\ cstate' = "exited"
            /\ conn' = Broken
            /\ launched' = {}
            /\ probed' = FALSE
            /\ stopPc' = IF proc = "exited" THEN "idle" ELSE "rm"
  /\ UNCHANGED <<now, containerStartTime, whisperIdleTimeout, tpc, tStart, ret, reclaimed>>
  /\ UNCHANGED qvars
  /\ UNCHANGED svars

\* stopContainer: docker rm, then containerStartTime = null
StopRm ==
  /\ stopPc = "rm"
  /\ proc # "exited"
  /\ IF cstate = "exited"
       THEN /\ cstate' = "absent"
            /\ containerStartTime' = NoTime
            /\ reclaimed' = TRUE
       ELSE UNCHANGED <<cstate, containerStartTime, reclaimed>>
  /\ stopPc' = "idle"
  /\ UNCHANGED <<now, whisperIdleTimeout, tpc, tStart, conn, ret, launched, probed>>
  /\ UNCHANGED qvars
  /\ UNCHANGED svars

\* time passes while a timer or a timeout is pending; a due timer, a used-up startup budget and a request timeout
\* are acted on before more time passes
Tick ==
  /\ now + TICK <= MaxTime
  /\ proc # "exited"
  /\ whisperIdleTimeout # NoTime \/ \E c \in Callers : tpc[c] \in {"s_wait", "post"}
  /\ whisperIdleTimeout # NoTime => now < whisperIdleTimeout[1]
  /\ \A c \in Callers :
       /\ tpc[c] = "s_wait" => now - tStart[c] < STARTUP_TIMEOUT
       /\ tpc[c] = "post" => now - tStart[c] < REQUEST_TIMEOUT
  /\ now' = now + TICK
  /\ UNCHANGED <<cstate, containerStartTime, whisperIdleTimeout, tpc, tStart, conn, ret,
                 stopPc, launched, reclaimed, probed>>
  /\ UNCHANGED qvars
  /\ UNCHANGED svars

DNext ==
  \/ \E c \in Callers :
       \/ Invoke(c)
       \/ Check(c)
       \/ StartStop(c)
       \/ StartRm(c)
       \/ StartRun(c)
       \/ WaitHealthy(c)
       \/ WaitTimeout(c)
       \/ Respond(c)
       \/ ConnError(c)
       \/ RequestTimeout(c)
  \/ BecomeHealthy
  \/ TimerFire
  \/ StopStop
  \/ StopRm
  \/ Tick

\* a server started in a deployment whose gateway calls can meet E, followed
\* for its first n jobs
SInit(E, n) ==
  /\ envs = E
  /\ quota = n
  /\ proc = "up"
  /\ deleted = [j \in Jobs |-> "no"]
  /\ lastSubmit = NoSubmit
  /\ lastUpdate = NoUpdate
  /\ lastCall = NoCall

\* ------------------------------------------------------------------------
\* Server.shutdown
\* ------------------------------------------------------------------------
\* SIGINT / SIGTERM: shutdown calls queueService.cleanup, whose worker.close()
\* stops the worker taking entries and waits for the active attempts
Shutdown ==
  /\ proc = "up"
  /\ proc' = "closing"
  /\ UNCHANGED <<envs, quota, deleted, lastSubmit, lastUpdate, lastCall>>
  /\ UNCHANGED qvars
  /\ UNCHANGED dvars

\* no attempt is active any more: worker.close() and queue.close() resolve,
\* cleanup returns and shutdown calls process.exit(0)
Exit ==
  /\ proc = "closing"
  /\ Active = {}
  /\ \A c \in Callers : tpc[c] = "idle"
  /\ proc' = "exited"
  /\ UNCHANGED <<envs, quota, deleted, lastSubmit, lastUpdate, lastCall>>
  /\ UNCHANGED qvars
  /\ UNCHANGED dvars

\* every backend condition can be met
Init == QInit /\ DInit /\ SInit(Envs, MaxJobs)

\* a deployment in which a call misses its file, finds the service down,
\* times out, is rejected with a reason, or succeeds with a transcription
\* and its file
FewEnvs ==
  { e \in Envs : \/ ~e.file
                 \/ e.conn \in {"ECONNREFUSED", "ETIMEDOUT"}
                 \/ e.conn = "ok" /\ ~e.success /\ Truthy(e.error)
                 \/ e.success /\ Truthy(e.transcription) /\ Truthy(e.transcription_file) }

InitFew == QInit /\ DInit /\ SInit(FewEnvs, MaxJobs)

\* a deployment in which a call finds the service down or succeeds
TwoEnvs == { e \in FewEnvs : e.conn = "ECONNREFUSED" \/ e.success }

InitTwo == QInit /\ DInit /\ SInit(TwoEnvs, MaxJobs)

Next == QNext

Spec == Init /\ [][Next]_vars

NextDocker == DNext

SpecDocker == Init /\ [][NextDocker]_vars

\* ------------------------------------------------------------------------
\* Properties of the queue and the store (checked under Spec)
\* ------------------------------------------------------------------------
Terminal == {COMPLETED, FAILED}

Permanent == {"InputMissing", "BackendRejected"}

\* the failure class met by the i-th gateway call of job j
KindOf(j, i) == calls[j][i].kind

\* the reason the gateway gave for the i-th call of job j
ReasonOf(j, i) == transcribeStatic(calls[j][i]).error

\* every gateway call of job j so far met an unavailable backend
AllUnavailable(j) ==
  /\ Len(calls[j]) >= 1
  /\ \A i \in 1..Len(calls[j]) : KindOf(j, i) = "BackendUnavailable"

\* the current attempt of job j, if any, has not yet acted on a response
AttemptOver(j) == pc[j] # "result"

\* C1: once the status of a row is Completed or Failed it never changes
\* again, whatever later attempts or retries do.
C1_TerminalStatusFinal ==
  [][\A j \in Jobs :
       store[j].status \in Terminal => store'[j].status = store[j].status]_vars

\* C2: in every state, transcriptionText is set only on a Completed row,
\* errorMessage only on a Failed row, and never both.
C2_ResultXorError ==
  \A j \in Jobs :
    Exists(j) =>
      /\ store[j].transcriptionText # NULL => store[j].status = COMPLETED
      /\ store[j].errorMessage # NULL => store[j].status = FAILED
      /\ ~(store[j].transcriptionText # NULL /\ store[j].errorMessage # NULL)

\* C3: a first gateway call that fails with a permanent error (InputMissing,
\* BackendRejected) is the only call for the job, the row is Failed as soon
\* as the attempt is over, and the entry is not re-enqueued.
C3_PermanentNotRetried ==
  \A j \in Jobs :
    (Len(calls[j]) >= 1 /\ KindOf(j, 1) \in Permanent) =>
      /\ Len(calls[j]) = 1
      /\ qstate[j] \in {"active", "failed"}
      /\ AttemptOver(j) => store[j].status = FAILED

\* C4: a job whose every gateway call meets BackendUnavailable gets exactly
\* ATTEMPTS calls, never a fourth, and ends Failed with the errorMessage of
\* the last call's reason.
C4_RetryCap ==
  \A j \in Jobs :
    AllUnavailable(j) =>
      /\ Len(calls[j]) <= ATTEMPTS
      /\ qstate[j] # "completed"
      /\ qstate[j] = "failed" <=> (Len(calls[j]) = ATTEMPTS /\ AttemptOver(j))
      /\ qstate[j] = "failed" =>
           /\ store[j].status = FAILED
           /\ store[j].errorMessage = ReasonOf(j, Len(calls[j]))

\* witness of C4: three unavailable calls with differing reasons, entry failed
C4_Witness ==
  \E j \in Jobs :
    /\ AllUnavailable(j)
    /\ qstate[j] = "failed"
    /\ Len(calls[j]) = ATTEMPTS
    /\ ReasonOf(j, 1) # ReasonOf(j, ATTEMPTS)

\* C5: k calls that meet BackendUnavailable (1 <= k < ATTEMPTS) followed by
\* a call the backend answers with success make exactly k+1 calls, and the
\* job ends Completed.
C5_RetryThenSuccess ==
  \A j \in Jobs : \A k \in 1..(ATTEMPTS - 1) :
    ( /\ Len(calls[j]) >= k + 1
      /\ \A i \in 1..k : KindOf(j, i) = "BackendUnavailable"
      /\ KindOf(j, k + 1) = "Success" ) =>
      /\ Len(calls[j]) = k + 1
      /\ AttemptOver(j) => (qstate[j] = "completed" /\ store[j].status = COMPLETED)

\* C6: a gateway call the backend answers with success is the last call of
\* the job, and once the attempt is over the row is Completed with a
\* non-empty text and a set transcriptionFilePath.
C6_SuccessCompletes ==
  \A j \in Jobs : \A i \in 1..Len(calls[j]) :
    KindOf(j, i) = "Success" =>
      /\ i = Len(calls[j])
      /\ AttemptOver(j) =>
           /\ store[j].status = COMPLETED
           /\ Truthy(store[j].transcriptionText)
           /\ Truthy(store[j].transcriptionFilePath)

\* ------------------------------------------------------------------------
\* Properties of the on-demand backend (checked under SpecDocker)
\* ------------------------------------------------------------------------
\* the callers executing startContainer
Starting == {c \in Callers : tpc[c] \in {"s_stop", "s_rm", "s_run", "s_wait"}}

\* the callers whose transcription request is in flight
InFlight == {c \in Callers : tpc[c] = "post"}

\* C7: between two idle stops at most one caller launches the container;
\* callers that arrive while it is stopped share one start sequence.
C7_SingleStart == Cardinality(launched) <= 1

\* C8: a transcription request is sent only when a health probe has
\* succeeded since the container was last started or stopped.
C8_SendOnlyWhenReady ==
  [][\A c \in Callers :
       (tpc[c] # "post" /\ tpc'[c] = "post") => probed']_vars

\* C9: at most one of startContainer / stopContainer is executing at any time.
C9_LifecycleExclusive ==
  Cardinality(Starting) + (IF stopPc # "idle" THEN 1 ELSE 0) <= 1

\* C10: the idle timer never stops the backend while a transcription
\* request is in flight.
C10_NoIdleStopInFlight ==
  [][(stopPc = "idle" /\ stopPc' = "stop") => InFlight = {}]_vars

\* ------------------------------------------------------------------------
\* The idle stop and the restart after it (checked under SpecDockerFair)
\* ------------------------------------------------------------------------
\* the timer callback and the stopContainer run it starts are scheduled by
\* the event loop and the docker commands return
SpecDockerFair ==
  /\ Init
  /\ [][NextDocker]_vars
  /\ WF_vars(TimerFire)
  /\ WF_vars(StopStop)
  /\ WF_vars(StopRm)

\* the idle timeout has elapsed and no transcribe call is running
IdleElapsed ==
  /\ whisperIdleTimeout # NoTime
  /\ now >= whisperIdleTimeout[1]
  /\ \A c \in Callers : tpc[c] = "idle"

\* the container is gone, or a transcribe call has been made meanwhile
StoppedOrUsed == cstate = "absent" \/ \E c \in Callers : tpc[c] # "idle"

\* C11: when the idle timeout elapses with no call since the last use the
\* container is eventually stopped and removed; a request sent after an idle
\* stop is sent only once the restarted container has answered a health probe.
C11_IdleStopThenRestart ==
  /\ IdleElapsed ~> StoppedOrUsed
  /\ [][\A c \in Callers :
          (reclaimed /\ tpc[c] # "post" /\ tpc'[c] = "post")
            => (cstate' = "healthy" /\ probed')]_vars

\* ------------------------------------------------------------------------
\* A start whose health probes never succeed (checked under SpecDocker)
\* ------------------------------------------------------------------------
\* C12: when the startup budget is used up without a successful probe the
\* container is not left running and the call returns a failure.
C12_StartupFailureStops ==
  [][\A c \in Callers :
       (tpc[c] = "s_wait" /\ now - tStart[c] >= STARTUP_TIMEOUT /\ tpc'[c] = "idle")
         => (~isContainerRunning' /\ ~ret'[c].success /\ Truthy(ret'[c].error))]_vars

\* ------------------------------------------------------------------------
\* Shutdown with the on-demand backend (checked under SpecDockerShutdown)
\* ------------------------------------------------------------------------
NextDockerShutdown ==
  \/ DNext
  \/ Shutdown
  \/ Exit

SpecDockerShutdown == Init /\ [][NextDockerShutdown]_vars

\* C13: when the process has exited after a shutdown signal the container
\* is not running and no idle timer is left armed.
C13_ShutdownStopsBackend ==
  proc = "exited" => (~isContainerRunning /\ whisperIdleTimeout = NoTime)

\* ------------------------------------------------------------------------
\* Shutdown of the queue (checked under SpecCleanupFair)
\* ------------------------------------------------------------------------
NextCleanup ==
  \/ QNext
  \/ Shutdown
  \/ Exit

\* the store answers the updates of an attempt and cleanup continues as soon
\* as worker.close() can resolve; nothing makes the gateway call of an
\* active attempt return
SpecCleanupFair ==
  /\ InitFew
  /\ [][NextCleanup]_vars
  /\ \A j \in Jobs : WF_vars(MarkProcessing(j)) /\ WF_vars(Complete(j)) /\ WF_vars(Fail(j))
  /\ WF_vars(Exit)

SpecFair ==
  /\ InitFew
  /\ [][Next]_vars
  /\ \A j \in Jobs :
       /\ WF_vars(Dequeue(j))
       /\ WF_vars(MarkProcessing(j))
       /\ WF_vars(Transcribe(j))
       /\ WF_vars(Complete(j))
       /\ WF_vars(Fail(j))
       /\ WF_vars(BackoffElapsed(j))

\* the queue entry of j is finished and its row holds a terminal status
Settled(j) == qstate[j] \in {"completed", "failed"} /\ store[j].status \in Terminal

\* C15: every accepted job eventually has a finished queue entry and a row
\* whose status is completed or failed.
C15_EveryJobSettles == \A j \in Jobs : (qstate[j] # "none") ~> Settled(j)

\* a job has settled after a retried attempt
C15_Witness == \E j \in Jobs : Settled(j) /\ attemptsMade[j] >= 1 /\ Len(calls[j]) >= 2

\* ------------------------------------------------------------------------
\* The pending status (checked under Spec)
\* ------------------------------------------------------------------------
\* C16: a row whose status is no longer pending never becomes pending again.
C16_NeverPendingAgain ==
  [][\A j \in Jobs :
       (Exists(j) /\ store[j].status # PENDING) => store'[j].status # PENDING]_vars

\* a retried attempt has marked a row processing that had already failed once
C16_Witness ==
  \E j \in Jobs :
    /\ Exists(j)
    /\ store[j].status = PROCESSING
    /\ attemptsMade[j] >= 1
    /\ Truthy(store[j].errorMessage)

\* ------------------------------------------------------------------------
\* The facade over the queue and the worker (checked under SpecFacade)
\* ------------------------------------------------------------------------
NextFacade ==
  \E j \in Ids :
    \/ Submit(j)
    \/ Delete(j)
    \/ Dequeue(j)
    \/ MarkProcessing(j)
    \/ Transcribe(j)
    \/ Complete(j)
    \/ Fail(j)
    \/ BackoffElapsed(j)

SpecFacade == InitTwo /\ [][NextFacade]_vars

\* the attempt of j was inside processTranscriptionJob when j was deleted
DeletedInFlight(j) == deleted[j] \in {"begin", "transcribe", "result"}

\* C17: deleteJob removes the row and leaves the queue entry and a running
\* attempt as they are; the row of a deleted job is absent in every later
\* state, whatever the attempt writes afterwards.
C17_DeletedStaysGone ==
  [][\A j \in Jobs :
       /\ deleted'[j] # "no" => store'[j] = NoJob
       /\ (deleted[j] = "no" /\ deleted'[j] # "no")
            => (pc'[j] = pc[j] /\ qstate'[j] = qstate[j] /\ waiting' = waiting)]_vars

\* a job was deleted during its attempt, the attempt has since ended with
\* its write and the row is absent
C17_Witness ==
  \E j \in Jobs :
    /\ DeletedInFlight(j)
    /\ qstate[j] \in {"completed", "delayed", "failed"}
    /\ ~Exists(j)

\* ------------------------------------------------------------------------
\* Validation of createJob (checked under SpecSubmit)
\* ------------------------------------------------------------------------
NextSubmit ==
  \E j \in Ids :
    \/ SubmitAny(j)
    \/ Delete(j)
    \/ Dequeue(j)
    \/ MarkProcessing(j)

SpecSubmit == InitTwo /\ [][NextSubmit]_vars

\* the request lacks originalFilename, filePath or model
MissingField(req) ==
  \E f \in {"originalFilename", "filePath", "model"} : req[f] \in {UNDEF, NULL, ""}

\* the last createJob request lacked a required field and was rejected
RejectedForMissingField ==
  /\ lastSubmit # NoSubmit
  /\ MissingField(lastSubmit.request)
  /\ lastSubmit.outcome.name = "ValidationError"

\* C18: a createJob request that lacks a required field fails with a
\* ValidationError and leaves the store and the queue as they were.
C18_MissingFieldRejected ==
  [][(lastSubmit' # lastSubmit /\ MissingField(lastSubmit'.request))
       => /\ lastSubmit'.outcome.name = "ValidationError"
          /\ store' = store
          /\ waiting' = waiting
          /\ qstate' = qstate]_vars

\* a request without a model was rejected while a job was stored and queued
C18_Witness ==
  /\ RejectedForMissingField
  /\ ~Truthy(lastSubmit.request.model)
  /\ Truthy(lastSubmit.request.originalFilename)
  /\ Truthy(lastSubmit.request.filePath)
  /\ \E j \in Jobs : Exists(j) /\ qstate[j] = "waiting"

\* ------------------------------------------------------------------------
\* The store update (checked under SpecStore)
\* ------------------------------------------------------------------------
NextStore ==
  \E j \in Ids :
    \/ Submit(j)
    \/ Delete(j)
    \/ UpdateAny(j)

SpecStore == InitTwo /\ [][NextStore]_vars

\* an update request that provides nothing
EmptyData == UpdateData(UNDEF, UNDEF, UNDEF, UNDEF, UNDEF)

\* the columns an update request can provide
UpdateFields == DOMAIN EmptyData

\* C19: an update that provides no field fails with an Error and leaves
\* every row, updatedAt included, as it was.
C19_EmptyUpdateRejected ==
  [][(lastUpdate' # lastUpdate /\ lastUpdate'.data = EmptyData)
       => /\ lastUpdate'.outcome.threw
          /\ store' = store]_vars

\* an empty update was rejected for a stored row that an earlier update
\* had changed
C19_Witness ==
  /\ lastUpdate # NoUpdate
  /\ lastUpdate.data = EmptyData
  /\ lastUpdate.outcome.threw
  /\ Exists(lastUpdate.id)
  /\ store[lastUpdate.id].updatedAt >= 1

NoMessage == {UNDEF, NULL, ""}

\* C21: a row whose status is failed has a non-empty errorMessage, and the
\* update of the catch block carries one even for an error without message.
C21_FailedHasMessage ==
  /\ \A j \in Jobs :
       (Exists(j) /\ store[j].status = FAILED) => Truthy(store[j].errorMessage)
  /\ \A msg \in NoMessage : Truthy(FailedData(msg).errorMessage)

\* a row failed for a response that gave no reason: the message is the one
\* processTranscriptionJob supplies
C21_Witness ==
  \E j \in Jobs :
    /\ Exists(j)
    /\ store[j].status = FAILED
    /\ store[j].errorMessage = "Transcription failed"

\* ------------------------------------------------------------------------
\* Reads of a job beside the worker (checked under SpecRead)
\* ------------------------------------------------------------------------
NextRead ==
  \E j \in Ids :
    \/ Submit(j)
    \/ GetJob(j)
    \/ Dequeue(j)
    \/ MarkProcessing(j)
    \/ Transcribe(j)
    \/ Complete(j)
    \/ Fail(j)
    \/ BackoffElapsed(j)

SpecRead == InitTwo /\ [][NextRead]_vars

\* the last request was a getJobById that returned a completed job
ReadCompleted ==
  /\ lastCall.op = "getJob"
  /\ ~lastCall.outcome.threw
  /\ lastCall.outcome.value.status = COMPLETED

\* C22: once getJobById has returned a completed job, a getJobById of the
\* same id made in any later state returns the identical record: neither the
\* read nor the worker changes the row of a completed job.
C22_CompletedReadStable ==
  ReadCompleted =>
    /\ Exists(lastCall.id)
    /\ mapRowToJob(store[lastCall.id]) = lastCall.outcome.value

\* a completed job was read after an earlier attempt of it had failed
C22_Witness ==
  /\ ReadCompleted
  /\ qstate[lastCall.id] = "completed"
  /\ attemptsMade[lastCall.id] >= 1

\* ------------------------------------------------------------------------
\* More jobs than worker slots (checked under SpecPool)
\* ------------------------------------------------------------------------
InitPool == QInit /\ DInit /\ SInit(TwoEnvs, PoolJobs)

SpecPool == InitPool /\ [][Next]_vars

\* C23: at most `concurrency` = 2 entries are active at any time, so the
\* worker takes no further entry while two attempts are running.
C23_AtMostTwoActive ==
  /\ Cardinality(Active) <= CONCURRENCY
  /\ Cardinality({j \in Jobs : pc[j] # "idle"}) <= CONCURRENCY

\* two attempts are running and a third entry waits
C23_Witness == Cardinality(Active) = CONCURRENCY /\ waiting # <<>>

\* the entry of j has never been retried
NeverRetried(j) == qstate[j] # "none" /\ attemptsMade[j] = 0

\* C24: createJob gives ids in the order it enqueues; when a never-retried
\* entry is taken by the worker, no never-retried entry enqueued before it is
\* still waiting.
C24_FifoAmongFirstAttempts ==
  [][\A j \in Jobs :
       (NeverRetried(j) /\ qstate[j] = "waiting" /\ qstate'[j] = "active")
         => \A k \in Jobs : (k < j /\ NeverRetried(k)) => qstate[k] # "waiting"]_vars

\* the last never-retried entry runs its first attempt while an entry
\* enqueued before it waits for its retry
C24_Witness ==
  \E j, k \in Jobs :
    /\ k < j
    /\ NeverRetried(j)
    /\ qstate[j] = "active"
    /\ attemptsMade[k] >= 1
    /\ qstate[k] = "waiting"

\* the longest delay a retry can be given: the one after the last attempt
\* that is still retried
BackoffCap == BACKOFF_DELAY * 2 ^ (ATTEMPTS - 2)

Rank(p) ==
  CASE p = "idle"   -> 0
    [] p = "check"  -> 1
    [] p = "s_stop" -> 2
    [] p = "s_rm"   -> 3
    [] p = "s_run"  -> 4
    [] p = "s_wait" -> 5
    [] p = "post"   -> 6

\* C26: a transcribe call only moves forward through its positions until it
\* returns, so it runs docker run at most once and sends at most one request;
\* a failed start or a failed request makes it return a response, it does
\* not go back to start or to send again.
C26_OneStartOneRequest ==
  [][\A c \in Callers :
       /\ tpc'[c] # tpc[c] => (tpc'[c] = "idle" \/ Rank(tpc'[c]) > Rank(tpc[c]))
       /\ ret'[c] # ret[c] => (tpc'[c] = "idle" \/ tpc[c] = "idle")
       /\ (tpc[c] # "idle" /\ tpc'[c] = "idle") => ret'[c] # NoResponse]_vars

\* a call has returned the failure of its only start while another call has
\* its only request in flight
C26_Witness ==
  \E c, d \in Callers :
    /\ tpc[c] = "idle"
    /\ ret[c] = ErrorResponse("Failed to start Whisper service")
    /\ tpc[d] = "post"

\* ------------------------------------------------------------------------
\* The timeouts of a gateway call
\* ------------------------------------------------------------------------
\* a response that tells its caller of a failure
IsFailure(r) == ~r.success /\ Truthy(r.error)

\* the call of c has waited for its request, or for the health of its start,
\* as long as transcribeStatic allows
Overdue(c) ==
  \/ tpc[c] = "post" /\ now - tStart[c] >= REQUEST_TIMEOUT
  \/ tpc[c] = "s_wait" /\ now - tStart[c] >= STARTUP_TIMEOUT

\* C27: a call whose request, or whose start, has not been answered within
\* its timeout can return at once, no time passes before it does, and what
\* it returns is a failure response; every return of transcribeStatic is a
\* response, a success or a failure with its message.
C27_TimeoutReturnsFailure ==
  [][\A c \in Callers :
       /\ Overdue(c) =>
            /\ ENABLED (RequestTimeout(c) \/ WaitTimeout(c))
            /\ now' = now
            /\ tpc'[c] # tpc[c] => (tpc'[c] = "idle" /\ IsFailure(ret'[c]))
       /\ (tpc[c] # "idle" /\ tpc'[c] = "idle")
            => (ret'[c].success \/ IsFailure(ret'[c]))]_vars

\* a call has returned the failure of the request it sent REQUEST_TIMEOUT ago
C27_Witness ==
  \E c \in Callers :
    /\ tpc[c] = "idle"
    /\ ret[c] = ErrorResponse("timeout of 600000ms exceeded")
    /\ now >= REQUEST_TIMEOUT

\* ------------------------------------------------------------------------
\* Requests for an id that is not stored (checked under SpecLookup)
\* ------------------------------------------------------------------------
NextLookup ==
  \E j \in Ids :
    \/ Submit(j)
    \/ Delete(j)
    \/ GetJob(j)
    \/ Dequeue(j)
    \/ MarkProcessing(j)
    \/ Transcribe(j)
    \/ Complete(j)
    \/ Fail(j)
    \/ BackoffElapsed(j)

SpecLookup == InitTwo /\ [][NextLookup]_vars

\* the jobs whose uploaded file is on disk: written before createJob,
\* unlinked by deleteJob
Files == {j \in Jobs : qstate[j] # "none" /\ deleted[j] = "no"}

\* this step is a getJobById or a deleteJob for id j
Requested(j) ==
  /\ lastCall'.id = j
  /\ \/ lastCall'.op # lastCall.op
     \/ lastCall'.id # lastCall.id
     \/ lastCall'.outcome.threw # lastCall.outcome.threw

\* the request of this step threw NotFoundError
ThrewNotFound == lastCall'.outcome.threw /\ lastCall'.outcome.value = NotFound.value

\* C28: getJobById and deleteJob for an id that is not stored throw
\* NotFoundError and change neither the store nor the files nor the queue;
\* for a stored id they do not throw it.
C28_NotFoundChangesNothing ==
  [][\A j \in Ids :
       /\ (Requested(j) /\ ~Exists(j)) =>
            /\ ThrewNotFound
            /\ store' = store
            /\ Files' = Files
            /\ deleted' = deleted
            /\ UNCHANGED <<waiting, qstate, attemptsMade, pc, result, dueAt>>
       /\ (Requested(j) /\ Exists(j)) => ~ThrewNotFound]_vars

\* both requests were refused for a job deleted while the worker had it:
\* its queue entry is still there
C28_Witness ==
  \E j \in Ids :
    /\ lastCall.op = "deleteJob" /\ lastCall.id = j /\ lastCall.outcome.threw
    /\ DeletedInFlight(j)
    /\ qstate[j] # "none"

\* ------------------------------------------------------------------------
\* The health route (checked under SpecHealth)
\* ------------------------------------------------------------------------
\* DockerWhisperService.healthCheckStatic: false unless the container runs
\* and GET /health answers 200 with status healthy within its timeout
healthCheckStatic(answers) == isContainerRunning /\ cstate = "healthy" /\ answers

\* mutation: the route answers 200 whatever the gateway reports
HealthStatus_always200(whisperHealthy) == IF whisperHealthy THEN 200 ELSE 200

\* const statusCode = whisperHealthy ? 200 : 503
HealthStatus(whisperHealthy) == IF whisperHealthy THEN 200 ELSE 503

\* the body and the status code of the answer of GET /health
HealthAnswer(whisperHealthy) ==
  [whisperHealthy |-> whisperHealthy,
   status         |-> IF whisperHealthy THEN "healthy" ELSE "unhealthy",
   whisper        |-> IF whisperHealthy THEN "up" ELSE "down",
   statusCode     |-> HealthStatus(whisperHealthy)]

\* router.get('/health'): ask the gateway, answer with its verdict
GetHealth ==
  /\ proc = "up"
  /\ \E answers \in BOOLEAN :
       lastCall' = Call("health", 0, Returned(HealthAnswer(healthCheckStatic(answers))))
  /\ UNCHANGED <<envs, quota, proc, deleted, lastSubmit, lastUpdate>>
  /\ UNCHANGED qvars
  /\ UNCHANGED dvars

NextHealth ==
  \/ DNext
  \/ GetHealth

SpecHealth == Init /\ [][NextHealth]_vars

\* the answer of the last GET /health
LastHealth == lastCall.outcome.value

\* C29: GET /health answers 503 and unhealthy exactly when healthCheck
\* returned false, and 200 and healthy exactly when it returned true.
C29_HealthStatusFollowsGateway ==
  lastCall.op = "health" =>
    /\ LastHealth.statusCode = 503 <=> ~LastHealth.whisperHealthy
    /\ LastHealth.statusCode = 200 <=> LastHealth.whisperHealthy
    /\ LastHealth.status = "unhealthy" <=> ~LastHealth.whisperHealthy

\* the route answered 503 for a container that runs but is not healthy yet
C29_Witness ==
  /\ lastCall.op = "health"
  /\ LastHealth.statusCode = 503
  /\ cstate = "starting"

\* ------------------------------------------------------------------------
\* Listing the jobs: JobRepository.findAll (checked under SpecList)
\* ------------------------------------------------------------------------
\* the columns of the jobs table
Columns ==
  {"id", "original_filename", "file_path", "file_type", "file_size", "language",
   "model", "status", "transcription_text", "transcription_file_path",
   "error_message", "created_at", "updated_at", "completed_at"}

\* PostgreSQL folds an identifier that is not quoted to lower case
Fold(name) ==
  CASE name = "createdAt" -> "createdat"
    [] name = "updatedAt" -> "updatedat"
    [] OTHER -> name

\* the options of findAll the callers pass: the page and the limit (1 and 10
\* when left out), the status filter and an orderBy of the type
\* FindAllOptions; UNDEF leaves the default
ListOptions ==
  [page : {1, 2}, limit : {1, 10}, status : {UNDEF, COMPLETED},
   orderBy : {UNDEF, "updatedAt"}, orderDirection : {UNDEF}]

\* the destructuring defaults of findAll
WithDefaults(o) ==
  [page           |-> o.page,
   limit          |-> o.limit,
   status         |-> o.status,
   orderBy        |-> IF o.orderBy = UNDEF THEN "createdAt" ELSE o.orderBy,
   orderDirection |-> IF o.orderDirection = UNDEF THEN "DESC" ELSE o.orderDirection]

\* WHERE status = $1, when a status is given
Matching(status) ==
  {j \in Jobs : Exists(j) /\ (Truthy(status) => store[j].status = status)}

\* the value of the ORDER BY column of row j; ids are given in the order of
\* creation, so the id stands for created_at
SortKey(col, j) == IF col = "updated_at" THEN store[j].updatedAt ELSE j

\* row a comes before row b under ORDER BY col dir (ties by id)
Before(col, dir, a, b) ==
  LET ka == SortKey(col, a)
      kb == SortKey(col, b)
  IN  IF ka = kb THEN a < b
      ELSE IF dir = "DESC" THEN ka > kb ELSE ka < kb

\* the rows of S in the order of ORDER BY col dir
Ordered(S, col, dir) ==
  [i \in 1..Cardinality(S) |->
     CHOOSE j \in S : Cardinality({k \in S : Before(col, dir, k, j)}) = i - 1]

\* LIMIT limit OFFSET offset of the sequence rows
Page(rows, limit, offset) ==
  SubSeq(rows, offset + 1, IF offset + limit < Len(rows) THEN offset + limit ELSE Len(rows))

\* JobRepository.findAll: the count query, then the data query, whose ORDER
\* BY names the column as written in orderBy; a name that is no column of
\* the table makes the query fail and findAll rethrows
findAll(options) ==
  LET o      == WithDefaults(options)
      offset == (o.page - 1) * o.limit
      total  == Cardinality(Matching(o.status))
  IN  IF Fold(o.orderBy) \notin Columns
        THEN Thrown("column does not exist")
        ELSE Returned([jobs  |-> Page(Ordered(Matching(o.status), Fold(o.orderBy),
                                              o.orderDirection), o.limit, offset),
                       total |-> total])

\* a findAll request and what it gave its caller
Listing(options, outcome) ==
  [op |-> "findAll", id |-> 0, options |-> options, outcome |-> outcome]

\* JobService.getAllJobs -> JobRepository.findAll
ListJobs ==
  /\ proc # "exited"
  /\ \E options \in ListOptions : lastCall' = Listing(options, findAll(options))
  /\ UNCHANGED <<envs, quota, proc, deleted, lastSubmit, lastUpdate>>
  /\ UNCHANGED qvars
  /\ UNCHANGED dvars

NextList ==
  \/ ListJobs
  \/ \E j \in Ids :
       \/ Submit(j)
       \/ Dequeue(j)
       \/ MarkProcessing(j)
       \/ Transcribe(j)
       \/ Complete(j)
       \/ Fail(j)
       \/ BackoffElapsed(j)

SpecList == InitPool /\ [][NextList]_vars

\* this step is a findAll that leaves the order of the rows to the default
ListedByDefault ==
  /\ lastCall'.op = "findAll"
  /\ lastCall'.options.orderBy = UNDEF
  /\ lastCall.op = "findAll" => lastCall'.options # lastCall.options

\* the jobs the listing should give: those matching the filter, the newest
\* first, limit of them from offset (page - 1) * limit
ExpectedListing(options) ==
  LET o == WithDefaults(options)
  IN  [jobs  |-> Page(Ordered(Matching(o.status), "created_at", "DESC"),
                      o.limit, (o.page - 1) * o.limit),
       total |-> Cardinality(Matching(o.status))]

\* C30: findAll with the default order succeeds and returns the jobs
\* matching the status filter, the newest first, at most limit of them from
\* offset (page - 1) * limit, with total the number of all matching jobs.
C30_ListNewestFirst ==
  [][ListedByDefault =>
       /\ ~lastCall'.outcome.threw
       /\ lastCall'.outcome.value = ExpectedListing(lastCall'.options)]_vars

\* ------------------------------------------------------------------------
\* POST /api/jobs/upload (checked under SpecUpload)
\* ------------------------------------------------------------------------
\* upload.ts fileFilter: allowedMimes, the types multer writes to disk
allowedMimes ==
  {"audio/mpeg", "audio/wav", "audio/mp4", "audio/ogg", "audio/webm", "audio/x-m4a",
   "video/mp4", "video/mpeg", "video/quicktime", "video/x-msvideo", "video/webm",
   "video/x-ms-wmv"}

\* validation.ts validateFileUpload: allowedMimeTypes
allowedMimeTypes ==
  {"audio/mpeg", "audio/wav", "audio/mp4", "audio/ogg",
   "video/mp4", "video/mpeg", "video/quicktime", "video/x-msvideo"}

\* a request without a file part
NoFile == "<no file>"

\* what a client can send as the type of the uploaded file
Mimetypes == allowedMimes \cup {"text/plain", NoFile}

\* fileFilter calls cb(null, true): multer stores the file in the upload directory
PassesFilter(mimetype) == mimetype \in allowedMimes

\* validateFileUpload calls next(); multer has already held the size to 500MB
PassesValidation(mimetype) == mimetype # NoFile /\ mimetype \in allowedMimeTypes

\* an upload request and its answer: whether multer stored the file, the
\* status code, and whether a job was created
Uploaded(mimetype, stored, statusCode, created) ==
  [op |-> "upload", id |-> 0, mimetype |-> mimetype, stored |-> stored,
   statusCode |-> statusCode, created |-> created,
   outcome |-> IF created THEN Returned("created") ELSE Thrown("rejected")]

\* router.post('/upload', uploadMiddleware, validateFileUpload, uploadFile):
\* a type refused by fileFilter or by validateFileUpload is answered 400;
\* otherwise uploadFile calls createJob and answers 201
Upload(j, mimetype) ==
  /\ proc # "exited"
  /\ IF PassesFilter(mimetype) /\ PassesValidation(mimetype)
       THEN /\ j = NextId
            /\ store' = [store EXCEPT ![j] = NewRow(ValidRequest)]
            /\ waiting' = Append(waiting, j)
            /\ qstate' = [qstate EXCEPT ![j] = "waiting"]
            /\ lastSubmit' = [request |-> ValidRequest, outcome |-> Created]
            /\ lastCall' = Uploaded(mimetype, TRUE, 201, TRUE)
       ELSE /\ j = 1
            /\ lastCall' = Uploaded(mimetype, PassesFilter(mimetype), 400, FALSE)
            /\ UNCHANGED <<store, waiting, qstate, lastSubmit>>
  /\ UNCHANGED <<attemptsMade, pc, result, calls>>
  /\ UNCHANGED dueAt
  /\ UNCHANGED <<envs, quota, proc, deleted, lastUpdate>>
  /\ UNCHANGED dvars

NextUpload ==
  \E j \in Ids :
    \/ \E mimetype \in Mimetypes : Upload(j, mimetype)
    \/ Dequeue(j)
    \/ MarkProcessing(j)
    \/ Transcribe(j)
    \/ Complete(j)
    \/ Fail(j)
    \/ BackoffElapsed(j)

SpecUpload == InitTwo /\ [][NextUpload]_vars

\* C31: a file of a type that passes fileFilter, and so is stored by the
\* upload middleware, is accepted by validateFileUpload and gets its job; no
\* stored file is answered with a rejection.
C31_StoredUploadGetsJob ==
  (lastCall.op = "upload" /\ lastCall.stored) =>
    (lastCall.created /\ lastCall.statusCode = 201)

\* ------------------------------------------------------------------------
\* createJob while the queue is unreachable (checked under SpecQueueDown)
\* ------------------------------------------------------------------------
\* what createJob rethrows when transcriptionQueue.add rejects
QueueError == [name |-> "Error", message |-> "queue unavailable"]

\* JobService.createJob for a valid request while Redis is unreachable: the
\* row is inserted, addTranscriptionJob rejects, the catch logs and rethrows
SubmitQueueDown(j) ==
  /\ proc # "exited"
  /\ j = NextId
  /\ store' = [store EXCEPT ![j] = NewRow(ValidRequest)]
  /\ lastSubmit' = [request |-> ValidRequest, outcome |-> QueueError]
  /\ UNCHANGED <<waiting, qstate, attemptsMade, pc, result, calls>>
  /\ UNCHANGED dueAt
  /\ UNCHANGED <<envs, quota, proc, deleted, lastUpdate, lastCall>>
  /\ UNCHANGED dvars

NextQueueDown ==
  \E j \in Ids :
    \/ Submit(j)
    \/ SubmitQueueDown(j)
    \/ Dequeue(j)
    \/ MarkProcessing(j)
    \/ Transcribe(j)
    \/ Complete(j)
    \/ Fail(j)
    \/ BackoffElapsed(j)

SpecQueueDown == InitPool /\ [][NextQueueDown]_vars

\* C32: whether createJob returned or threw, every pending row it left in
\* the store has its queue entry.
C32_PendingRowIsQueued ==
  \A j \in Jobs :
    (Exists(j) /\ store[j].status = PENDING) => qstate[j] # "none"

\* ------------------------------------------------------------------------
\* Deleting a job that still waits in the queue (checked under SpecFacade)
\* ------------------------------------------------------------------------
\* deleteJob removed j while its queue entry was on the wait list
DeletedWhileWaiting(j) == deleted[j] = "waiting"

\* C33: once deleteJob has succeeded for a job whose entry was still on the
\* wait list, the worker never takes that entry and no gateway call is made
\* for the job.
C33_DeletedNeverProcessed ==
  [][\A j \in Jobs :
       DeletedWhileWaiting(j) =>
         /\ (qstate'[j] = "active" => qstate[j] = "active")
         /\ calls'[j] = calls[j]]_vars

\* ------------------------------------------------------------------------
\* The store fails under the worker (checked under SpecStoreDown)
\* ------------------------------------------------------------------------
\* the message of the Error JobModel.update throws when its query fails
UpdateFailed == "Failed to update job"

\* mutation: the failure of the first update is swallowed and the attempt
\* goes on to the gateway
MarkProcessingFails_swallow(j) ==
  /\ pc[j] = "begin"
  /\ pc' = [pc EXCEPT ![j] = "transcribe"]
  /\ UNCHANGED <<store, waiting, qstate, attemptsMade, result, calls>>
  /\ UNCHANGED dueAt
  /\ UNCHANGED <<envs, quota, proc, deleted, lastSubmit, lastUpdate, lastCall>>
  /\ UNCHANGED dvars

\* processTranscriptionJob when the update to processing throws: the catch
\* block tries to mark the row failed, which succeeds if the store is back
\* and throws again if not; either way the attempt rejects, and BullMQ
\* retries or fails the entry
MarkProcessingFails(j) ==
  /\ pc[j] = "begin"
  /\ \E storeBack \in BOOLEAN :
       IF storeBack THEN JobModel_update(j, FailedData(UpdateFailed)) ELSE store' = store
  /\ attemptsMade' = [attemptsMade EXCEPT ![j] = @ + 1]
  /\ qstate' = [qstate EXCEPT ![j] =
                  IF ShouldRetry(attemptsMade[j] + 1) THEN "delayed" ELSE "failed"]
  /\ dueAt' = [dueAt EXCEPT ![j] =
                 IF ShouldRetry(attemptsMade[j] + 1)
                   THEN At(now + Backoff(attemptsMade[j] + 1)) ELSE NoTime]
  /\ pc' = [pc EXCEPT ![j] = "idle"]
  /\ UNCHANGED <<waiting, result, calls>>
  /\ UNCHANGED <<envs, quota, proc, deleted, lastSubmit, lastUpdate, lastCall>>
  /\ UNCHANGED dvars

NextStoreDown ==
  \E j \in Ids :
    \/ Submit(j)
    \/ Dequeue(j)
    \/ MarkProcessing(j)
    \/ MarkProcessingFails(j)
    \/ Transcribe(j)
    \/ Complete(j)
    \/ Fail(j)
    \/ BackoffElapsed(j)

SpecStoreDown == InitFew /\ [][NextStoreDown]_vars

\* the attempt of j leaves its first await in this step without the row
\* having been marked processing
NotMarked(j) == pc[j] = "begin" /\ pc'[j] # "begin" /\ store'[j].status # PROCESSING

\* C34: an attempt whose update to processing failed ends there: no gateway
\* call is made for it, and the queue counts it as a failed attempt, to be
\* retried or given up, never as completed.
C34_NoGatewayCallWhenMarkFails ==
  [][\A j \in Jobs :
       NotMarked(j) =>
         /\ pc'[j] = "idle"
         /\ calls'[j] = calls[j]
         /\ attemptsMade'[j] = attemptsMade[j] + 1
         /\ qstate'[j] \in {"delayed", "failed"}]_vars

\* every attempt of a job failed at its first update: the entry is failed
\* and the gateway was never called for it
C34_Witness ==
  \E j \in Jobs :
    /\ qstate[j] = "failed"
    /\ attemptsMade[j] = ATTEMPTS
    /\ calls[j] = <<>>
    /\ store[j].status = PENDING

\* ------------------------------------------------------------------------
\* The completed row
\* ------------------------------------------------------------------------
\* C35: a completed row has a non-empty transcriptionText and its
\* completedAt, and completedAt is set on completed rows only: the success
\* branch writes the three columns in one update, so no state of the store
\* shows one without the others.
C35_CompletedHasTextAndDate ==
  \A j \in Jobs :
    Exists(j) =>
      /\ store[j].status = COMPLETED =>
           (Truthy(store[j].transcriptionText) /\ Truthy(store[j].completedAt))
      /\ Truthy(store[j].completedAt) => store[j].status = COMPLETED

\* a job was completed by a retry, after an attempt that had marked it failed
C35_Witness ==
  \E j \in Jobs :
    /\ Exists(j)
    /\ store[j].status = COMPLETED
    /\ attemptsMade[j] >= 1
    /\ Truthy(store[j].errorMessage)

\* ------------------------------------------------------------------------
\* Rows in processing and the worker slots (checked under SpecPool)
\* ------------------------------------------------------------------------
\* the rows whose status is processing
ProcessingRows == {j \in Jobs : Exists(j) /\ store[j].status = PROCESSING}

\* C36: every job entered the queue once; an entry has an attempt running
\* exactly while it is active, a row is processing only while the attempt of
\* its job runs, and so at most two rows are processing at any time.
C36_ProcessingWithinPool ==
  /\ \A j \in Jobs : (pc[j] # "idle") <=> (qstate[j] = "active")
  /\ \A j \in Jobs : Len(SelectSeq(waiting, LAMBDA k : k = j)) <= 1
  /\ ProcessingRows \subseteq Active
  /\ Cardinality(ProcessingRows) <= CONCURRENCY

\* two rows are processing while a third job, failed once, awaits its retry
C36_Witness ==
  /\ Cardinality(ProcessingRows) = CONCURRENCY
  /\ \E j \in Jobs : qstate[j] = "delayed" /\ store[j].status = FAILED

\* ------------------------------------------------------------------------
\* The routes /api/jobs/:id (checked under SpecRoute)
\* ------------------------------------------------------------------------
\* id texts that are UUIDs
Uuids == {"123e4567-e89b-12d3-a456-426614174000"}

\* what a client can put in the place of :id
IdTexts == Uuids \cup {"42", "not-a-uuid"}

\* z.string().uuid()
IsUuid(text) == text \in Uuids

\* req.params of a route declared with the path '/:id'
RouteParams(text) == [id |-> text]

\* the value zod reads for a key of the params object
Field(params, key) == IF key \in DOMAIN params THEN params[key] ELSE UNDEF

\* jobIdParamSchema: params.jobId must be a UUID string
PassesJobIdParamSchema(params) ==
  LET jobId == Field(params, "jobId")
  IN  jobId # UNDEF /\ IsUuid(jobId)

\* the requests on /:id and /:id/download
Verbs == {"GET", "DELETE", "DOWNLOAD"}

\* a request answered 400 'Validation failed' by validate()
Refused(verb, j, text) ==
  [op |-> "route", id |-> j, verb |-> verb, idText |-> text, statusCode |-> 400,
   outcome |-> Thrown("Validation failed")]

\* the controller behind the validation: deleteJob for DELETE, getJobById
\* for GET and for the download
Controller(verb, j) == IF verb = "DELETE" THEN Delete(j) ELSE GetJob(j)

\* router.get / router.delete('/:id', validate(jobIdParamSchema), ...): a
\* request for job j written with the id text
RequestById(j, verb, text) ==
  /\ proc # "exited"
  /\ IF PassesJobIdParamSchema(RouteParams(text))
       THEN Controller(verb, j)
       ELSE /\ lastCall' = Refused(verb, j, text)
            /\ UNCHANGED <<envs, quota, proc, deleted, lastSubmit, lastUpdate>>
            /\ UNCHANGED qvars
            /\ UNCHANGED dvars

NextRoute ==
  \E j \in Ids :
    \/ Submit(j)
    \/ \E verb \in Verbs, text \in IdTexts : RequestById(j, verb, text)
    \/ Dequeue(j)
    \/ MarkProcessing(j)
    \/ Transcribe(j)
    \/ Complete(j)
    \/ Fail(j)
    \/ BackoffElapsed(j)

SpecRoute == InitTwo /\ [][NextRoute]_vars

\* C37: a request on /api/jobs/:id is answered 400 by the parameter
\* validation only when its id is not a UUID; with a UUID it reaches the
\* controller.
C37_UuidPassesValidation ==
  lastCall.op = "route" => ~IsUuid(lastCall.idText)

====
